---- MODULE Spec2Model ----
(***************************************************************************)
(* Model of the study-plan endpoint: the request router POST of            *)
(* src/src/app/api/generate/route.ts and the flows and tools of            *)
(* src/unnamed/part_001 (the module the router imports as "@/index").      *)
(*                                                                         *)
(* A text is a sequence of string pieces, one per character where the      *)
(* code looks at characters, so that trim and encodeURIComponent are       *)
(* computed and not assumed.  A JSON value is a                            *)
(* record [t, v]: t is what JavaScript's typeof / null test tells, v the   *)
(* value.  A JavaScript object is a function from its keys to its values,  *)
(* so that `"topics" in result` is "topics" \in DOMAIN result.             *)
(***************************************************************************)
EXTENDS Integers, Sequences, FiniteSets, TLC

(***************************************************************************)
(* Bounds of the model.                                                    *)
(***************************************************************************)
MaxTopics == 2

(***************************************************************************)
(* JSON values.                                                            *)
(***************************************************************************)
JUndef == [t |-> "undefined", v |-> <<>>]
JNull == [t |-> "null", v |-> <<>>]
JStr(s) == [t |-> "string", v |-> s]
JNum(n) == [t |-> "number", v |-> n]
JBool(b) == [t |-> "boolean", v |-> b]
JObj(o) == [t |-> "object", v |-> o]
JArr(a) == [t |-> "array", v |-> a]

(***************************************************************************)
(* String.prototype.trim on a text: whitespace is removed at both ends.    *)
(***************************************************************************)
IsSpace(c) == c = " "

RECURSIVE TrimStart(_)
TrimStart(s) ==
    IF s = <<>> THEN <<>>
    ELSE IF IsSpace(Head(s)) THEN TrimStart(Tail(s))
    ELSE s

RECURSIVE TrimEnd(_)
TrimEnd(s) ==
    IF s = <<>> THEN <<>>
    ELSE IF IsSpace(s[Len(s)]) THEN TrimEnd(SubSeq(s, 1, Len(s) - 1))
    ELSE s

Trim(s) == TrimEnd(TrimStart(s))

(***************************************************************************)
(* encodeURIComponent, character by character.                             *)
(***************************************************************************)
EncodeChar(c) == IF c = " " THEN "%20" ELSE c

encodeURIComponent(s) == [i \in 1..Len(s) |-> EncodeChar(s[i])]

(***************************************************************************)
(* Tool findEducationalLink: the record for a topic and a platform.        *)
(***************************************************************************)
\* findEducationalLink choosing by the platform before looking at the topic:
\* the blank topic has the default record on the default branch only.
findEducationalLinkPlatformFirst(topic, preferredPlatform) ==
    LET q == Trim(topic)
        encoded == encodeURIComponent(q)
    IN  CASE preferredPlatform = "khanacademy" ->
                [title |-> q \o <<" - Khan Academy">>,
                 url |-> <<"https://www.khanacademy.org/search?page_search_query=">>
                         \o encoded,
                 platform |-> "Khan Academy"]
          [] preferredPlatform = "coursera" ->
                [title |-> q \o <<" Courses">>,
                 url |-> <<"https://www.coursera.org/search?query=">> \o encoded,
                 platform |-> "Coursera"]
          [] OTHER ->
                IF q = <<>>
                THEN [title |-> <<"Getting Started">>,
                      url |-> <<"https://www.khanacademy.org">>,
                      platform |-> "Khan Academy"]
                ELSE [title |-> <<"Introduction to ">> \o q,
                      url |-> <<"https://www.youtube.com/results?search_query=">>
                              \o encoded \o <<"+tutorial">>,
                      platform |-> "YouTube"]

\* findEducationalLink taking "any" for Khan Academy.
findEducationalLinkAnyIsKhan(topic, preferredPlatform) ==
    LET q == Trim(topic)
        encoded == encodeURIComponent(q)
    IN  IF q = <<>>
        THEN [title |-> <<"Getting Started">>,
              url |-> <<"https://www.khanacademy.org">>,
              platform |-> "Khan Academy"]
        ELSE CASE preferredPlatform \in {"khanacademy", "any"} ->
                    [title |-> q \o <<" - Khan Academy">>,
                     url |-> <<"https://www.khanacademy.org/search?page_search_query=">>
                             \o encoded,
                     platform |-> "Khan Academy"]
               [] preferredPlatform = "coursera" ->
                    [title |-> q \o <<" Courses">>,
                     url |-> <<"https://www.coursera.org/search?query=">> \o encoded,
                     platform |-> "Coursera"]
               [] OTHER ->
                    [title |-> <<"Introduction to ">> \o q,
                     url |-> <<"https://www.youtube.com/results?search_query=">>
                             \o encoded \o <<"+tutorial">>,
                     platform |-> "YouTube"]

findEducationalLink(topic, preferredPlatform) ==
    LET q == Trim(topic)
        encoded == encodeURIComponent(q)
    IN  IF q = <<>>
        THEN [title |-> <<"Getting Started">>,
              url |-> <<"https://www.khanacademy.org">>,
              platform |-> "Khan Academy"]
        ELSE CASE preferredPlatform = "khanacademy" ->
                    [title |-> q \o <<" - Khan Academy">>,
                     url |-> <<"https://www.khanacademy.org/search?page_search_query=">>
                             \o encoded,
                     platform |-> "Khan Academy"]
               [] preferredPlatform = "coursera" ->
                    [title |-> q \o <<" Courses">>,
                     url |-> <<"https://www.coursera.org/search?query=">> \o encoded,
                     platform |-> "Coursera"]
               [] OTHER ->
                    [title |-> <<"Introduction to ">> \o q,
                     url |-> <<"https://www.youtube.com/results?search_query=">>
                             \o encoded \o <<"+tutorial">>,
                     platform |-> "YouTube"]

(***************************************************************************)
(* Tool estimateStudyTime: the two lookup tables.                          *)
(***************************************************************************)
baseHours(d) ==
    CASE d = "beginner" -> 5 [] d = "intermediate" -> 8 [] d = "advanced" -> 12

\* baseWeeks reading the table of hours.
baseWeeksFromHours(d) ==
    CASE d = "beginner" -> 5 [] d = "intermediate" -> 8 [] d = "advanced" -> 12

baseWeeks(d) ==
    CASE d = "beginner" -> 4 [] d = "intermediate" -> 8 [] d = "advanced" -> 12

estimateStudyTime(topic, d) ==
    [topic |-> topic,
     hoursPerWeek |-> baseHours(d),
     totalWeeks |-> baseWeeks(d),
     description |-> <<"For ", d, " level ", topic, ", we recommend ", baseHours(d),
                       " hours per week for ", baseWeeks(d), " weeks.">>]

(***************************************************************************)
(* JavaScript objects: o.k = v, and the test o?.a?.b being truthy.         *)
(***************************************************************************)
EmptyObject == <<>>

Put(o, k, val) == [x \in (DOMAIN o) \cup {k} |-> IF x = k THEN val ELSE o[x]]

\* HasResourceUrl looking at the resource only, not at its url.
HasResource(o) == "resource" \in DOMAIN o

HasResourceUrl(o) ==
    /\ "resource" \in DOMAIN o
    /\ "url" \in DOMAIN o["resource"]
    /\ o["resource"]["url"] # <<>>

(***************************************************************************)
(* What a call returns: a value, or a thrown error (a rejected promise).   *)
(***************************************************************************)
Returned(val) == [ok |-> TRUE, value |-> val]
Thrown(what) == [ok |-> FALSE, value |-> what]

(***************************************************************************)
(* The schemas the flows are defined with.  A flow's input is checked      *)
(* against its inputSchema before its body runs and its result against     *)
(* its outputSchema before it is returned; a mismatch is a thrown error.   *)
(***************************************************************************)
studyPlanGeneratorInputOk(input) ==
    /\ Len(input.subject) >= 1
    /\ input.topicCount >= 3
    /\ input.topicCount <= 10

studyPlanGeneratorStructuredInputOk(input) ==
    /\ Len(input.subject) >= 1
    /\ "difficulty" \in DOMAIN input =>
          input.difficulty \in {"beginner", "intermediate", "advanced"}

enhancedStudyPlanGeneratorInputOk(input) ==
    /\ Len(input.subject) >= 1
    /\ "difficulty" \in DOMAIN input =>
          input.difficulty \in {"beginner", "intermediate", "advanced"}
    /\ "includeTimeEstimates" \in DOMAIN input => input.includeTimeEstimates \in BOOLEAN

ResourceOk(o) ==
    /\ "resource" \in DOMAIN o
    /\ {"title", "url"} \subseteq DOMAIN o["resource"]
    /\ o["resource"]["url"] # <<>>

studyPlanGeneratorStructuredOutputOk(o) ==
    /\ {"subject", "topics"} \subseteq DOMAIN o
    /\ ResourceOk(o)

enhancedStudyPlanGeneratorOutputOk(o) ==
    /\ {"subject", "topics"} \subseteq DOMAIN o
    /\ ResourceOk(o)

(***************************************************************************)
(* Flow studyPlanGenerator, from the provider's reply on: reply.text is    *)
(* a JSON value, null or undefined when the provider gave no text.         *)
(***************************************************************************)
NoSuggestions == <<"No suggestions available.">>

studyPlanGeneratorBody(input, text) ==
    Returned([text |-> IF text.t \in {"null", "undefined"} THEN NoSuggestions
                       ELSE text.v])

(***************************************************************************)
(* Flow studyPlanGeneratorStructured, from the provider's reply on:        *)
(* output is null or an object with any of subject, topics, resource,      *)
(* difficulty.  The topics are JSON strings.                               *)
(***************************************************************************)
\* The parameter default of both flows: difficulty = "beginner".
InputDifficulty(input) ==
    IF "difficulty" \in DOMAIN input THEN input.difficulty ELSE "beginner"

\* StampDifficulty keeping a difficulty the provider gave.
StampDifficultyIfMissing(json, d) ==
    IF "difficulty" \in DOMAIN json THEN json ELSE Put(json, "difficulty", d)

\* json.difficulty = difficulty
StampDifficulty(json, d) == Put(json, "difficulty", d)

ToolCall(tool, input) == [tool |-> tool, input |-> input]

\* ResourceFallbackCall asking for a platform.
ResourceFallbackCallYouTube(input) ==
    ToolCall("findEducationalLink",
             [topic |-> input.subject, preferredPlatform |-> "youtube"])

\* findEducationalLink({ topic: subject }): the call both flows fall back to.
ResourceFallbackCall(input) ==
    ToolCall("findEducationalLink",
             [topic |-> input.subject, preferredPlatform |-> "undefined"])

ResourceFallback(input) ==
    LET call == ResourceFallbackCall(input)
    IN  findEducationalLink(call.input.topic, call.input.preferredPlatform)

studyPlanGeneratorStructuredBody(input, output) ==
    LET json0 == IF output.t = "null" THEN EmptyObject ELSE output.v
        json1 == IF ~HasResourceUrl(json0)
                 THEN Put(json0, "resource", ResourceFallback(input))
                 ELSE json0
        json == StampDifficulty(json1, InputDifficulty(input))
    IN  IF studyPlanGeneratorStructuredOutputOk(json)
        THEN Returned(json)
        ELSE Thrown("outputSchema")

\* The tools the body of studyPlanGeneratorStructured calls itself.
studyPlanGeneratorStructuredToolCalls(input, output) ==
    LET json0 == IF output.t = "null" THEN EmptyObject ELSE output.v
    IN  IF ~HasResourceUrl(json0) THEN <<ResourceFallbackCall(input)>> ELSE <<>>

(***************************************************************************)
(* Flow enhancedStudyPlanGenerator, from the provider's reply on.          *)
(***************************************************************************)
EnhancedTopic(topicName, d, includeTimeEstimates) ==
    IF includeTimeEstimates
    THEN LET timeEstimate == estimateStudyTime(topicName, d)
         IN  JObj([name |-> topicName,
                   estimatedTime |-> [hoursPerWeek |-> timeEstimate.hoursPerWeek,
                                      totalWeeks |-> timeEstimate.totalWeeks]])
    ELSE JObj([name |-> topicName])

\* EnhancedTopics putting each topic in front of the ones before it.
EnhancedTopicsUnshifted(names, d, includeTimeEstimates) ==
    [i \in 1..Len(names) |->
        EnhancedTopic(names[Len(names) + 1 - i].v, d, includeTimeEstimates)]

\* The loop over planData.topics: one push per topic name, in order.
EnhancedTopics(names, d, includeTimeEstimates) ==
    [i \in 1..Len(names) |-> EnhancedTopic(names[i].v, d, includeTimeEstimates)]

\* TopicHours without the weeks.
TopicHoursOfOneWeek(timeEstimate) == timeEstimate.hoursPerWeek

\* What one topic adds to totalHours.
TopicHours(timeEstimate) == timeEstimate.hoursPerWeek * timeEstimate.totalWeeks

RECURSIVE TotalHours(_, _)
TotalHours(topics, d) ==
    IF topics = <<>> THEN 0
    ELSE TopicHours(estimateStudyTime(Head(topics).v, d))
         + TotalHours(Tail(topics), d)

\* SpreadTotal with the total in every result.
SpreadTotalAlways(plan, includeTimeEstimates, totalHours) ==
    Put(plan, "totalEstimatedHours", totalHours)

\* ...(includeTimeEstimates && { totalEstimatedHours: totalHours })
SpreadTotal(plan, includeTimeEstimates, totalHours) ==
    IF includeTimeEstimates THEN Put(plan, "totalEstimatedHours", totalHours) ELSE plan

enhancedStudyPlanGeneratorBody(input, output) ==
    LET planData0 == IF output.t = "null" THEN EmptyObject ELSE output.v
        planData == IF ~HasResourceUrl(planData0)
                    THEN Put(planData0, "resource", ResourceFallback(input))
                    ELSE planData0
        names == IF "topics" \in DOMAIN planData THEN planData["topics"] ELSE <<>>
        enhancedTopics ==
            EnhancedTopics(names, InputDifficulty(input), input.includeTimeEstimates)
        rest == [difficulty |-> InputDifficulty(input),
                 topics |-> enhancedTopics,
                 resource |-> planData["resource"]]
        base == IF "subject" \in DOMAIN planData
                THEN Put(rest, "subject", planData["subject"])
                ELSE rest
        plan == SpreadTotal(base, input.includeTimeEstimates,
                            IF input.includeTimeEstimates
                            THEN TotalHours(names, InputDifficulty(input))
                            ELSE 0)
    IN  IF enhancedStudyPlanGeneratorOutputOk(plan)
        THEN Returned(plan)
        ELSE Thrown("outputSchema")

\* The tools the body of enhancedStudyPlanGenerator calls itself, in order.
enhancedStudyPlanGeneratorToolCalls(input, output) ==
    LET planData0 == IF output.t = "null" THEN EmptyObject ELSE output.v
        names == IF "topics" \in DOMAIN planData0 THEN planData0["topics"] ELSE <<>>
    IN  (IF ~HasResourceUrl(planData0) THEN <<ResourceFallbackCall(input)>> ELSE <<>>)
        \o (IF input.includeTimeEstimates
            THEN [i \in 1..Len(names) |->
                    ToolCall("estimateStudyTime",
                             [topic |-> names[i].v,
                              difficulty |-> InputDifficulty(input)])]
            ELSE <<>>)

(***************************************************************************)
(* Tool generateQuizQuestions, from the provider's reply on: output is     *)
(* null or an object that may hold questions.                              *)
(***************************************************************************)
generateQuizQuestionsBody(topic, output) ==
    [topic |-> topic,
     questions |-> IF output.t = "object" /\ "questions" \in DOMAIN output.v
                   THEN output.v["questions"]
                   ELSE <<>>]

(***************************************************************************)
(* The router's helper getToolsUsed.                                       *)
(***************************************************************************)
\* getToolsUsed naming the quiz tool inside the else branch only.
getToolsUsedQuizUnlessSimple(fm, enh, ite, quiz) ==
    IF fm = "simple"
    THEN <<"studyTopicsPrompt">>
    ELSE <<"structuredStudyPlanPrompt", "findEducationalLink">>
         \o (IF enh \/ ite THEN <<"estimateStudyTime">> ELSE <<>>)
         \o (IF quiz THEN <<"generateQuizQuestions">> ELSE <<>>)

\* getToolsUsed naming the estimator for every flow.
getToolsUsedEstimatorInSimple(fm, enh, ite, quiz) ==
    (IF fm = "simple"
     THEN <<"studyTopicsPrompt">>
     ELSE <<"structuredStudyPlanPrompt", "findEducationalLink">>)
    \o (IF enh \/ ite THEN <<"estimateStudyTime">> ELSE <<>>)
    \o (IF quiz THEN <<"generateQuizQuestions">> ELSE <<>>)

getToolsUsed(fm, enh, ite, quiz) ==
    (IF fm = "simple"
     THEN <<"studyTopicsPrompt">>
     ELSE <<"structuredStudyPlanPrompt", "findEducationalLink">>
          \o (IF enh \/ ite THEN <<"estimateStudyTime">> ELSE <<>>))
    \o (IF quiz THEN <<"generateQuizQuestions">> ELSE <<>>)

(***************************************************************************)
(* The requests and the provider's replies the model draws from.           *)
(***************************************************************************)
SubjectValues ==
    {JUndef, JNum(7), JStr(<<>>), JStr(<<" ">>), JStr(<<" ", "a", " ", "b", " ">>)}

FlowModeValues ==
    {JUndef, JNum(1), JStr("simple"), JStr("structured"), JStr("enhanced"),
     JStr("other")}

FlagValues == {JBool(TRUE), JBool(FALSE), JStr("true")}

DifficultyValues ==
    {JUndef, JStr("beginner"), JStr("intermediate"), JStr("advanced"),
     JStr("expert")}

TopicCountValues == {JUndef, JNum(2), JNum(11), JStr("7")}

ModelValues == {JUndef, JStr(<<" ", "m">>)}

InvalidJson == [t |-> "invalid", v |-> <<>>]
Consumed == [t |-> "consumed", v |-> <<>>]

RawBodies ==
    {InvalidJson, JNull, JNum(1), JStr(<<"a">>), JArr(<<>>)}
    \cup {JObj(o) : o \in [subject : SubjectValues,
                            flowMode : FlowModeValues,
                            enhanced : FlagValues,
                            includeQuiz : FlagValues,
                            includeTimeEstimates : FlagValues,
                            difficulty : DifficultyValues,
                            topicCount : TopicCountValues,
                            model : ModelValues]}

TopicNames == {<<"A">>, <<"B">>}

TopicLists ==
    UNION {[1..n -> {JStr(x) : x \in TopicNames}] : n \in 0..MaxTopics}

\* The objects of objs, and each of them with key k set to a value of vals.
WithOptional(objs, k, vals) == objs \cup {Put(o, k, val) : o \in objs, val \in vals}

ProviderResources ==
    {[title |-> <<"R">>],
     [title |-> <<"R">>, url |-> <<>>],
     [title |-> <<"R">>, url |-> <<"https://provider.example/r">>,
      platform |-> "Provider"]}

PlanObjects(subj) ==
    WithOptional(
        WithOptional(
            WithOptional(
                WithOptional({EmptyObject}, "subject", {subj}),
                "topics", TopicLists),
            "resource", ProviderResources),
        "difficulty", {"advanced"})

PlanOutputs(subj) == {JNull} \cup {JObj(o) : o \in PlanObjects(subj)}

\* The inputs the provider may give a tool it requests: each passes the
\* tool's inputSchema.
ToolTopics == {<<>>, <<" ">>, <<" ", " ">>, <<"a">>, <<" ", "a", " ", "b", " ">>}

Platforms == {"youtube", "khanacademy", "coursera", "any"}

ToolInputs(tool) ==
    CASE tool = "findEducationalLink" ->
            [topic : ToolTopics, preferredPlatform : Platforms \cup {"undefined"}]
      [] tool = "estimateStudyTime" ->
            [topic : ToolTopics, difficulty : {"beginner", "intermediate", "advanced"}]

TextReplies == {JNull, JStr(<<>>), JStr(<<"- first topic">>)}

QuizOutputs ==
    {JNull,
     JObj([questions |-> <<[question |-> "Q", type |-> "true-false",
                            answer |-> "True"]>>])}

(***************************************************************************)
(* State of one request.                                                   *)
(*   rawBody        the request's payload, until it is read                *)
(*   body           the parsed payload, from line 14 until its last use    *)
(*                  on line 30                                             *)
(*   subject .. topicCount   the router's normalised locals; model is a    *)
(*                  JSON value, a string or undefined                      *)
(*   result         the chosen flow's result                               *)
(*   quizPromises   the promises Promise.all waits for                     *)
(*   completed      the quiz calls that have settled, in the order of      *)
(*                  their settling                                         *)
(*   caught         the error the catch block was entered with             *)
(*   responses      the responses sent                                     *)
(*   flowCalls, providerCalls, quizCalls   the calls made so far           *)
(*   toolCalls      the tool calls the flow's own code has made            *)
(*   toolRequest    the tool the provider is having run during the plan    *)
(*                  call, with its input and what it returns               *)
(* Outside the request:                                                    *)
(*   parked         the state of another request the server is handling,   *)
(*                  while it is not the one taking steps                   *)
(*   page           the state of the web form's component (page.tsx        *)
(*                  44-49): subject, plan, quiz, toolsUsed, isLoading,     *)
(*                  error                                                  *)
(*   fetches        the requests the web form has sent, in the order of    *)
(*                  their sending                                          *)
(***************************************************************************)
VARIABLES pc, rawBody, body, subject, model, difficulty, includeTimeEstimates,
          enhanced, includeQuiz, flowMode, topicCount, result, quizPromises,
          completed, caught, responses, flowCalls, providerCalls, quizCalls,
          toolCalls, toolRequest, parked, page, fetches

locals == <<subject, model, difficulty, includeTimeEstimates, enhanced, includeQuiz,
            flowMode, topicCount>>
calls == <<flowCalls, providerCalls, quizCalls, toolCalls, toolRequest>>
request == <<pc, rawBody, body, locals, result, quizPromises, completed, caught,
             responses, calls>>
outside == <<parked, page, fetches>>
vars == <<request, outside>>

\* The web form before anything is typed: the useState initial values.
InitialPage ==
    [subject |-> <<>>, plan |-> <<>>, quiz |-> <<>>, toolsUsed |-> <<>>,
     isLoading |-> FALSE, error |-> ""]

\* No other request, and a web form nobody uses.
NothingOutside ==
    /\ parked = <<>>
    /\ page = InitialPage
    /\ fetches = <<>>

\* The handler has been called with a request whose payload is raw.
Received(raw) ==
    /\ pc = "request"
    /\ rawBody = raw
    /\ body = JUndef
    /\ subject = <<>>
    /\ model = JUndef
    /\ difficulty = ""
    /\ includeTimeEstimates = FALSE
    /\ enhanced = FALSE
    /\ includeQuiz = FALSE
    /\ flowMode = ""
    /\ topicCount = 0
    /\ result = EmptyObject
    /\ quizPromises = <<>>
    /\ completed = <<>>
    /\ caught = "none"
    /\ responses = <<>>
    /\ flowCalls = <<>>
    /\ providerCalls = <<>>
    /\ quizCalls = <<>>
    /\ toolCalls = <<>>
    /\ toolRequest = <<>>

Init ==
    /\ \E raw \in RawBodies : Received(raw)
    /\ NothingOutside

(***************************************************************************)
(* NextResponse.json(body, {status}) followed by return.                   *)
(***************************************************************************)
Respond(status, payload) ==
    /\ responses' = Append(responses, [status |-> status, body |-> payload])
    /\ pc' = "done"

MissingSubject == [error |-> "Missing subject"]
InternalServerError == [error |-> "Internal Server Error"]

\* Catch answering with the error it caught.
CatchLeaking(error) ==
    /\ caught' = error
    /\ Respond(500, [error |-> error])

\* Catch ending the request without a response.
CatchSilent(error) ==
    /\ caught' = error
    /\ pc' = "done"
    /\ UNCHANGED responses

\* The catch block of POST, entered with the error that was thrown.
Catch(error) ==
    /\ caught' = error
    /\ Respond(500, InternalServerError)

\* The success response of POST.
Respond200(quizQuestions) ==
    Respond(200, [data |-> result,
                  quiz |-> quizQuestions,
                  meta |-> [flowMode |-> flowMode,
                            toolsUsed |-> getToolsUsed(flowMode, enhanced,
                                                       includeTimeEstimates,
                                                       includeQuiz)]])

(***************************************************************************)
(* await req.json().catch(() => ({})): the payload is read once; a         *)
(* payload that is not JSON reads as the empty object.                     *)
(***************************************************************************)
\* ReadBody without the catch on req.json(): a payload that is not JSON is
\* thrown into the catch block of POST.
ReadBodyUncaught ==
    /\ pc = "request"
    /\ rawBody' = Consumed
    /\ IF rawBody = InvalidJson
       THEN /\ Catch("json")
            /\ UNCHANGED body
       ELSE /\ body' = rawBody
            /\ pc' = "body"
            /\ UNCHANGED <<caught, responses>>
    /\ UNCHANGED <<locals, result, quizPromises, completed, calls>>
    /\ UNCHANGED outside

ReadBody ==
    /\ pc = "request"
    /\ body' = IF rawBody = InvalidJson THEN JObj(EmptyObject) ELSE rawBody
    /\ rawBody' = Consumed
    /\ pc' = "body"
    /\ UNCHANGED <<locals, result, quizPromises, completed, caught, responses, calls>>
    /\ UNCHANGED outside

\* body?.k
Field(b, k) == IF b.t = "object" /\ k \in DOMAIN b.v THEN b.v[k] ELSE JUndef

Difficulties == {"beginner", "intermediate", "advanced"}

\* NormSubject without the trim.
NormSubjectUntrimmed(b) ==
    IF Field(b, "subject").t = "string" THEN Field(b, "subject").v ELSE <<>>

NormSubject(b) ==
    IF Field(b, "subject").t = "string" THEN Trim(Field(b, "subject").v) ELSE <<>>

NormModel(b) ==
    IF Field(b, "model").t = "string" THEN JStr(Trim(Field(b, "model").v)) ELSE JUndef

NormDifficulty(b) ==
    IF Field(b, "difficulty").t = "string" /\ Field(b, "difficulty").v \in Difficulties
    THEN Field(b, "difficulty").v
    ELSE "beginner"

\* NormFlag taking every truthy value for true.
NormFlagTruthy(b, k) ==
    \/ Field(b, k).t = "string"
    \/ Field(b, k).t = "number"
    \/ Field(b, k).t = "boolean" /\ Field(b, k).v

NormFlag(b, k) == Field(b, k) = JBool(TRUE)

NormFlowMode(b) ==
    IF Field(b, "flowMode").t = "string" THEN Field(b, "flowMode").v ELSE "structured"

NormTopicCount(b) ==
    IF Field(b, "topicCount").t = "number" THEN Field(b, "topicCount").v ELSE 5

(***************************************************************************)
(* Lines 15-34: the fields are normalised, and a blank subject is          *)
(* answered 400.  The body is not read after line 30.                      *)
(***************************************************************************)
ParseFields ==
    /\ pc = "body"
    /\ subject' = NormSubject(body)
    /\ model' = NormModel(body)
    /\ difficulty' = NormDifficulty(body)
    /\ includeTimeEstimates' = NormFlag(body, "includeTimeEstimates")
    /\ enhanced' = NormFlag(body, "enhanced")
    /\ includeQuiz' = NormFlag(body, "includeQuiz")
    /\ flowMode' = NormFlowMode(body)
    /\ topicCount' = NormTopicCount(body)
    /\ body' = JUndef
    /\ IF NormSubject(body) = <<>>
       THEN Respond(400, MissingSubject)
       ELSE pc' = "dispatch" /\ UNCHANGED responses
    /\ UNCHANGED <<rawBody, result, quizPromises, completed, caught, calls>>
    /\ UNCHANGED outside

(***************************************************************************)
(* Lines 39-59: the flow the router calls, and what it passes to it.       *)
(***************************************************************************)
\* SelectFlow with the enhanced test ahead of the simple test.
SelectFlowEnhancedFirst(fm, enh) ==
    IF enh \/ fm = "enhanced" THEN "enhancedStudyPlanGenerator"
    ELSE IF fm = "simple" THEN "studyPlanGenerator"
    ELSE "studyPlanGeneratorStructured"

SelectFlow(fm, enh) ==
    IF fm = "simple" THEN "studyPlanGenerator"
    ELSE IF enh \/ fm = "enhanced" THEN "enhancedStudyPlanGenerator"
    ELSE "studyPlanGeneratorStructured"

FlowInput(flow) ==
    CASE flow = "studyPlanGenerator" ->
            [subject |-> subject, model |-> model, topicCount |-> topicCount]
      [] flow = "enhancedStudyPlanGenerator" ->
            [subject |-> subject, model |-> model, difficulty |-> difficulty,
             includeTimeEstimates |-> includeTimeEstimates]
      [] flow = "studyPlanGeneratorStructured" ->
            [subject |-> subject, model |-> model, difficulty |-> difficulty]

FlowInputOk(flow, input) ==
    CASE flow = "studyPlanGenerator" -> studyPlanGeneratorInputOk(input)
      [] flow = "enhancedStudyPlanGenerator" -> enhancedStudyPlanGeneratorInputOk(input)
      [] flow = "studyPlanGeneratorStructured" ->
            studyPlanGeneratorStructuredInputOk(input)

DefaultModel == <<"googleai/gemini-2.0-flash-exp">>

\* model?.trim() || the default model
SelectedModel(m) ==
    IF m.t = "string" /\ Trim(m.v) # <<>> THEN Trim(m.v) ELSE DefaultModel

\* The ai.generate call each flow makes.
FlowGenerate(flow, input) ==
    CASE flow = "studyPlanGenerator" ->
            [kind |-> "plan", model |-> SelectedModel(input.model),
             format |-> "text", tools |-> {},
             prompt |-> <<"studyTopicsPrompt", input.subject, input.topicCount>>]
      [] flow = "enhancedStudyPlanGenerator" ->
            [kind |-> "plan", model |-> SelectedModel(input.model),
             format |-> "json",
             tools |-> {"findEducationalLink", "estimateStudyTime"},
             prompt |-> <<"structuredStudyPlanPrompt", input.subject,
                          input.difficulty>>]
      [] flow = "studyPlanGeneratorStructured" ->
            [kind |-> "plan", model |-> SelectedModel(input.model),
             format |-> "json", tools |-> {"findEducationalLink"},
             prompt |-> <<"structuredStudyPlanPrompt", input.subject,
                          input.difficulty>>]

FlowReplies(flow, input) ==
    IF flow = "studyPlanGenerator" THEN TextReplies ELSE PlanOutputs(input.subject)

FlowToolCalls(flow, input, reply) ==
    CASE flow = "studyPlanGenerator" -> <<>>
      [] flow = "enhancedStudyPlanGenerator" ->
            enhancedStudyPlanGeneratorToolCalls(input, reply)
      [] flow = "studyPlanGeneratorStructured" ->
            studyPlanGeneratorStructuredToolCalls(input, reply)

FlowBody(flow, input, reply) ==
    CASE flow = "studyPlanGenerator" -> studyPlanGeneratorBody(input, reply)
      [] flow = "enhancedStudyPlanGenerator" ->
            enhancedStudyPlanGeneratorBody(input, reply)
      [] flow = "studyPlanGeneratorStructured" ->
            studyPlanGeneratorStructuredBody(input, reply)

(***************************************************************************)
(* The router calls the flow: its input is checked, and its body runs up   *)
(* to the provider call.  A rejected input is thrown into the catch block. *)
(***************************************************************************)
Dispatch ==
    /\ pc = "dispatch"
    /\ LET flow == SelectFlow(flowMode, enhanced)
           input == FlowInput(flow)
       IN  /\ flowCalls' = Append(flowCalls, [flow |-> flow, input |-> input])
           /\ IF FlowInputOk(flow, input)
              THEN /\ providerCalls' = Append(providerCalls, FlowGenerate(flow, input))
                   /\ pc' = "awaitPlan"
                   /\ UNCHANGED <<responses, caught>>
              ELSE /\ Catch("inputSchema")
                   /\ UNCHANGED providerCalls
    /\ UNCHANGED <<rawBody, body, locals, result, quizPromises, completed, quizCalls,
                   toolCalls, toolRequest>>
    /\ UNCHANGED outside

(***************************************************************************)
(* While the plan call is pending the provider may request a tool the      *)
(* call offers (tools: [...] of ai.generate), any number of times: the     *)
(* tool runs on the provider's input, its return value goes back to the    *)
(* provider, and the plan call is pending again.                           *)
(***************************************************************************)
RunTool(tool, input) ==
    CASE tool = "findEducationalLink" ->
            findEducationalLink(input.topic, input.preferredPlatform)
      [] tool = "estimateStudyTime" ->
            estimateStudyTime(input.topic, input.difficulty)

ProviderToolRequest ==
    /\ pc = "awaitPlan"
    /\ \E tool \in providerCalls[Len(providerCalls)].tools :
          \E input \in ToolInputs(tool) :
             toolRequest' = <<[tool |-> tool, input |-> input,
                               output |-> RunTool(tool, input)]>>
    /\ pc' = "tool"
    /\ UNCHANGED <<rawBody, body, locals, result, quizPromises, completed, caught,
                   responses, flowCalls, providerCalls, quizCalls, toolCalls>>
    /\ UNCHANGED outside

ToolResponse ==
    /\ pc = "tool"
    /\ toolRequest' = <<>>
    /\ pc' = "awaitPlan"
    /\ UNCHANGED <<rawBody, body, locals, result, quizPromises, completed, caught,
                   responses, flowCalls, providerCalls, quizCalls, toolCalls>>
    /\ UNCHANGED outside

(***************************************************************************)
(* The provider call of the flow fails: the flow rejects, the router's     *)
(* catch block answers.                                                    *)
(***************************************************************************)
PlanFail ==
    /\ pc = "awaitPlan"
    /\ Catch("provider")
    /\ UNCHANGED <<rawBody, body, locals, result, quizPromises, completed, calls>>
    /\ UNCHANGED outside

(***************************************************************************)
(* The provider call of the flow replies: the rest of the flow runs, and   *)
(* the router has its result, or the flow's error in its catch block.      *)
(***************************************************************************)
PlanReply ==
    /\ pc = "awaitPlan"
    /\ LET flow == flowCalls[Len(flowCalls)].flow
           input == flowCalls[Len(flowCalls)].input
       IN  \E reply \in FlowReplies(flow, input) :
              LET r == FlowBody(flow, input, reply)
              IN  /\ toolCalls' = toolCalls \o FlowToolCalls(flow, input, reply)
                  /\ IF r.ok
                     THEN /\ result' = r.value
                          /\ pc' = "flowDone"
                          /\ UNCHANGED <<responses, caught>>
                     ELSE /\ Catch(r.value)
                          /\ UNCHANGED result
    /\ UNCHANGED <<rawBody, body, locals, quizPromises, completed, flowCalls,
                   providerCalls, quizCalls, toolRequest>>
    /\ UNCHANGED outside

(***************************************************************************)
(* Lines 62-65: the topic names the quiz is asked for.                     *)
(***************************************************************************)
TopicName(t) == IF t.t = "string" THEN t.v ELSE t.v["name"]

QuizTopics(res) ==
    IF "topics" \in DOMAIN res
    THEN [i \in 1..Len(res["topics"]) |-> TopicName(res["topics"][i])]
    ELSE <<>>

\* WantsQuiz without the test for an empty topic list.
WantsQuizForAnyList == includeQuiz /\ "topics" \in DOMAIN result

WantsQuiz == includeQuiz /\ "topics" \in DOMAIN result /\ QuizTopics(result) # <<>>

QuizCallFor(topic) == [topic |-> topic, count |-> 3, difficulty |-> difficulty]

\* QuizCallsFor with one call per distinct name (the first occurrences).
QuizCallsForDistinct(topics) ==
    LET firsts == {i \in 1..Len(topics) : \A j \in 1..(i - 1) : topics[j] # topics[i]}
        RECURSIVE Calls(_)
        Calls(i) ==
            IF i > Len(topics) THEN <<>>
            ELSE (IF i \in firsts THEN <<QuizCallFor(topics[i])>> ELSE <<>>)
                 \o Calls(i + 1)
    IN  Calls(1)

QuizCallsFor(topics) == [i \in 1..Len(topics) |-> QuizCallFor(topics[i])]

QuizGenerate(call) ==
    [kind |-> "quiz", model |-> DefaultModel, format |-> "json", tools |-> {},
     prompt |-> <<"quiz", call.topic, call.count, call.difficulty>>]

\* QuizGenerateAll with one provider call for the whole list.
QuizGenerateBatch(issued) ==
    IF issued = <<>> THEN <<>> ELSE <<QuizGenerate(issued[1])>>

\* Every generateQuizQuestions call makes its own ai.generate call.
QuizGenerateAll(issued) == [i \in 1..Len(issued) |-> QuizGenerate(issued[i])]

Pending == [state |-> "pending", value |-> <<>>]
Fulfilled(val) == [state |-> "fulfilled", value |-> val]
Rejected == [state |-> "rejected", value |-> <<>>]

\* What the provider does with a call: it fails, or it replies with an output.
ProviderError == [failed |-> TRUE, output |-> JNull]
ProviderOutput(output) == [failed |-> FALSE, output |-> output]

(***************************************************************************)
(* The promise of one generateQuizQuestions call: await ai.generate is in  *)
(* no try block, so the provider's error rejects the call.                 *)
(***************************************************************************)
generateQuizQuestionsOutcome(topic, reply) ==
    IF reply.failed
    THEN Rejected
    ELSE Fulfilled(generateQuizQuestionsBody(topic, reply.output))

(***************************************************************************)
(* Lines 67-71: topics.map calls generateQuizQuestions for every topic,    *)
(* each call runs up to its provider call, then Promise.all awaits them.   *)
(***************************************************************************)
IssueQuizCalls ==
    /\ pc = "flowDone"
    /\ WantsQuiz
    /\ LET issued == QuizCallsFor(QuizTopics(result))
       IN  /\ quizCalls' = quizCalls \o issued
           /\ providerCalls' = providerCalls \o QuizGenerateAll(issued)
           /\ quizPromises' = [i \in 1..Len(issued) |-> Pending]
    /\ pc' = "awaitQuiz"
    /\ UNCHANGED <<rawBody, body, locals, result, completed, caught, responses,
                   flowCalls, toolCalls, toolRequest>>
    /\ UNCHANGED outside

\* Lines 62-86 when no quiz is generated: quizQuestions stays null.
RespondWithoutQuiz ==
    /\ pc = "flowDone"
    /\ ~WantsQuiz
    /\ Respond200(JNull)
    /\ UNCHANGED <<rawBody, body, locals, result, quizPromises, completed, caught,
                   calls>>
    /\ UNCHANGED outside

\* Settle keeping the outcomes in the order of their arrival.
SettleInArrivalOrder(promises, i, outcome) ==
    LET k == CHOOSE k \in 1..Len(promises) :
                /\ promises[k].state = "pending"
                /\ \A j \in 1..(k - 1) : promises[j].state # "pending"
    IN  [promises EXCEPT ![k] = outcome]

\* Promise.all keeps the i-th promise's value in the i-th place.
Settle(promises, i, outcome) == [promises EXCEPT ![i] = outcome]

(***************************************************************************)
(* The provider call of the i-th quiz replies: generateQuizQuestions       *)
(* returns.  Nothing cancels a call, so it may also return after the       *)
(* response was sent.                                                      *)
(***************************************************************************)
QuizReply(i) ==
    /\ pc \in {"awaitQuiz", "done"}
    /\ quizPromises[i] = Pending
    /\ \E output \in QuizOutputs :
          quizPromises' = Settle(quizPromises, i,
                generateQuizQuestionsOutcome(quizCalls[i].topic, ProviderOutput(output)))
    /\ completed' = Append(completed, i)
    /\ UNCHANGED <<pc, rawBody, body, locals, result, caught, responses, calls>>
    /\ UNCHANGED outside

\* The provider call of the i-th quiz fails: generateQuizQuestions rejects.
QuizFail(i) ==
    /\ pc \in {"awaitQuiz", "done"}
    /\ quizPromises[i] = Pending
    /\ quizPromises' = Settle(quizPromises, i,
            generateQuizQuestionsOutcome(quizCalls[i].topic, ProviderError))
    /\ completed' = Append(completed, i)
    /\ UNCHANGED <<pc, rawBody, body, locals, result, caught, responses, calls>>
    /\ UNCHANGED outside

\* Promise.all resolves once every promise is fulfilled: lines 71-86.
QuizAllFulfilled ==
    /\ pc = "awaitQuiz"
    /\ \A i \in 1..Len(quizPromises) : quizPromises[i].state = "fulfilled"
    /\ Respond200(JArr([i \in 1..Len(quizPromises) |-> quizPromises[i].value]))
    /\ UNCHANGED <<rawBody, body, locals, result, quizPromises, completed, caught,
                   calls>>
    /\ UNCHANGED outside

\* Promise.all rejects once a promise is rejected: the catch block answers.
QuizRejected ==
    /\ pc = "awaitQuiz"
    /\ \E i \in 1..Len(quizPromises) : quizPromises[i].state = "rejected"
    /\ Catch("quiz")
    /\ UNCHANGED <<rawBody, body, locals, result, quizPromises, completed, calls>>
    /\ UNCHANGED outside

Next ==
    \/ ReadBody
    \/ ParseFields
    \/ Dispatch
    \/ ProviderToolRequest
    \/ ToolResponse
    \/ PlanFail
    \/ PlanReply
    \/ IssueQuizCalls
    \/ RespondWithoutQuiz
    \/ \E i \in 1..MaxTopics : i <= Len(quizPromises) /\ QuizReply(i)
    \/ \E i \in 1..MaxTopics : i <= Len(quizPromises) /\ QuizFail(i)
    \/ QuizAllFulfilled
    \/ QuizRejected

Spec == Init /\ [][Next]_vars

(***************************************************************************)
(* The request under the scheduling the runtime gives it: the router's own *)
(* steps and the tools run whenever they can, every provider call          *)
(* eventually replies or fails (the plan call however often the provider   *)
(* has tools run in between).                                              *)
(***************************************************************************)
RouterStep ==
    \/ ReadBody
    \/ ParseFields
    \/ Dispatch
    \/ ToolResponse
    \/ IssueQuizCalls
    \/ RespondWithoutQuiz
    \/ QuizAllFulfilled
    \/ QuizRejected

QuizSettles(i) == i <= Len(quizPromises) /\ (QuizReply(i) \/ QuizFail(i))

Fairness ==
    /\ WF_vars(RouterStep)
    /\ SF_vars(PlanReply \/ PlanFail)
    /\ \A i \in 1..MaxTopics : WF_vars(QuizSettles(i))

LiveSpec == Spec /\ Fairness

(***************************************************************************)
(* Two requests handled by the server at the same time.  Every variable of *)
(* POST is a local of one call of it, and the module it imports holds no   *)
(* variable that is assigned after start-up, so a request in flight owns   *)
(* a copy of the whole request state.  The event loop runs one call of     *)
(* POST at a time and may turn to the other one whenever the running one   *)
(* is not between two statements without an await (lines 15-40).           *)
(***************************************************************************)
\* The state of a request that was just received, as a record.
NewRequest(raw) ==
    [pc |-> "request",
     rawBody |-> raw,
     body |-> JUndef,
     subject |-> <<>>,
     model |-> JUndef,
     difficulty |-> "",
     includeTimeEstimates |-> FALSE,
     enhanced |-> FALSE,
     includeQuiz |-> FALSE,
     flowMode |-> "",
     topicCount |-> 0,
     result |-> EmptyObject,
     quizPromises |-> <<>>,
     completed |-> <<>>,
     caught |-> "none",
     responses |-> <<>>,
     flowCalls |-> <<>>,
     providerCalls |-> <<>>,
     quizCalls |-> <<>>,
     toolCalls |-> <<>>,
     toolRequest |-> <<>>]

\* The state of the request that is running, as a record.
Context ==
    [pc |-> pc,
     rawBody |-> rawBody,
     body |-> body,
     subject |-> subject,
     model |-> model,
     difficulty |-> difficulty,
     includeTimeEstimates |-> includeTimeEstimates,
     enhanced |-> enhanced,
     includeQuiz |-> includeQuiz,
     flowMode |-> flowMode,
     topicCount |-> topicCount,
     result |-> result,
     quizPromises |-> quizPromises,
     completed |-> completed,
     caught |-> caught,
     responses |-> responses,
     flowCalls |-> flowCalls,
     providerCalls |-> providerCalls,
     quizCalls |-> quizCalls,
     toolCalls |-> toolCalls,
     toolRequest |-> toolRequest]

\* The request whose state is ctx runs from here on.
Resume(ctx) ==
    /\ pc' = ctx.pc
    /\ rawBody' = ctx.rawBody
    /\ body' = ctx.body
    /\ subject' = ctx.subject
    /\ model' = ctx.model
    /\ difficulty' = ctx.difficulty
    /\ includeTimeEstimates' = ctx.includeTimeEstimates
    /\ enhanced' = ctx.enhanced
    /\ includeQuiz' = ctx.includeQuiz
    /\ flowMode' = ctx.flowMode
    /\ topicCount' = ctx.topicCount
    /\ result' = ctx.result
    /\ quizPromises' = ctx.quizPromises
    /\ completed' = ctx.completed
    /\ caught' = ctx.caught
    /\ responses' = ctx.responses
    /\ flowCalls' = ctx.flowCalls
    /\ providerCalls' = ctx.providerCalls
    /\ quizCalls' = ctx.quizCalls
    /\ toolCalls' = ctx.toolCalls
    /\ toolRequest' = ctx.toolRequest

\* Switch with result held in one place for both requests.
SwitchSharingResult ==
    /\ pc # "dispatch"
    /\ parked' = Context
    /\ Resume([parked EXCEPT !.result = result])
    /\ UNCHANGED <<page, fetches>>

Switch ==
    /\ pc # "dispatch"
    /\ parked' = Context
    /\ Resume(parked)
    /\ UNCHANGED <<page, fetches>>

\* The requests the two-request model draws from: Simple requests that
\* differ in difficulty, enhanced, includeTimeEstimates, includeQuiz and
\* topicCount, and one Enhanced request with time estimates and a quiz.
SimpleBodies ==
    {JObj(o) : o \in [subject : {JStr(<<" ", "a", " ", "b", " ">>)},
                       flowMode : {JStr("simple")},
                       enhanced : {JBool(TRUE), JBool(FALSE)},
                       includeQuiz : {JBool(TRUE), JBool(FALSE)},
                       includeTimeEstimates : {JBool(TRUE), JBool(FALSE)},
                       difficulty : {JUndef, JStr("advanced")},
                       topicCount : {JUndef, JNum(2)},
                       model : {JUndef}]}

EnhancedBody ==
    JObj([subject |-> JStr(<<" ", "a", " ", "b", " ">>),
          flowMode |-> JStr("enhanced"),
          enhanced |-> JBool(TRUE),
          includeQuiz |-> JBool(TRUE),
          includeTimeEstimates |-> JBool(TRUE),
          difficulty |-> JStr("intermediate"),
          topicCount |-> JUndef,
          model |-> JUndef])

OneSimpleBody ==
    JObj([subject |-> JStr(<<" ", "a", " ", "b", " ">>),
          flowMode |-> JStr("simple"),
          enhanced |-> JBool(FALSE),
          includeQuiz |-> JBool(TRUE),
          includeTimeEstimates |-> JBool(FALSE),
          difficulty |-> JUndef,
          topicCount |-> JUndef,
          model |-> JUndef])

ConcurrentPairs ==
    (SimpleBodies \X SimpleBodies) \cup {<<EnhancedBody, OneSimpleBody>>}

ConcurrentInit ==
    /\ \E pair \in ConcurrentPairs :
          /\ Received(pair[1])
          /\ parked = NewRequest(pair[2])
    /\ page = InitialPage
    /\ fetches = <<>>

ConcurrentNext ==
    \/ Next
    \/ Switch

ConcurrentSpec == ConcurrentInit /\ [][ConcurrentNext]_vars

(***************************************************************************)
(* Properties.                                                             *)
(***************************************************************************)
Sent(status) == Len(responses) = 1 /\ responses[1].status = status

BeforeDispatch == pc \in {"request", "body", "dispatch"}

PlanTopicNames(plan) ==
    [i \in 1..Len(plan["topics"]) |->
        IF plan["topics"][i].t = "string"
        THEN plan["topics"][i].v
        ELSE plan["topics"][i].v["name"]]

IsTextPlan(d) == DOMAIN d = {"text"}

IsStructuredPlan(d) ==
    /\ DOMAIN d = {"subject", "topics", "resource", "difficulty"}
    /\ \A i \in 1..Len(d["topics"]) : d["topics"][i].t = "string"

IsEnhancedPlan(d) ==
    /\ {"subject", "difficulty", "topics", "resource"} \subseteq DOMAIN d
    /\ DOMAIN d \subseteq
          {"subject", "difficulty", "topics", "resource", "totalEstimatedHours"}
    /\ \A i \in 1..Len(d["topics"]) :
          /\ d["topics"][i].t = "object"
          /\ "name" \in DOMAIN d["topics"][i].v

(***************************************************************************)
(* C1: a request with a non-blank subject has exactly one plan flow        *)
(* called for it, the Simple flow when flowMode is "simple", else the      *)
(* Enhanced flow when enhanced is true or flowMode is "enhanced", else the *)
(* Structured flow; the data of the 200 response has that flow's shape.    *)
(***************************************************************************)
C1_OneFlowByPriority ==
    /\ BeforeDispatch => flowCalls = <<>>
    /\ (~BeforeDispatch /\ subject # <<>>) =>
          /\ Len(flowCalls) = 1
          /\ flowMode = "simple" => flowCalls[1].flow = "studyPlanGenerator"
          /\ (flowMode # "simple" /\ (enhanced \/ flowMode = "enhanced")) =>
                flowCalls[1].flow = "enhancedStudyPlanGenerator"
          /\ (flowMode \notin {"simple", "enhanced"} /\ ~enhanced) =>
                flowCalls[1].flow = "studyPlanGeneratorStructured"
    /\ Sent(200) =>
          /\ flowMode = "simple" => IsTextPlan(responses[1].body.data)
          /\ (flowMode # "simple" /\ (enhanced \/ flowMode = "enhanced")) =>
                IsEnhancedPlan(responses[1].body.data)
          /\ (flowMode \notin {"simple", "enhanced"} /\ ~enhanced) =>
                IsStructuredPlan(responses[1].body.data)

\* enhanced: true with flowMode "structured" is answered by the Enhanced flow.
C1_Witness ==
    /\ Sent(200)
    /\ enhanced
    /\ flowMode = "structured"
    /\ flowCalls = <<[flow |-> "enhancedStudyPlanGenerator",
                      input |-> flowCalls[1].input]>>
    /\ IsEnhancedPlan(responses[1].body.data)
    /\ Len(responses[1].body.data["topics"]) > 0

(***************************************************************************)
(* C2: a body whose subject is missing, not a string, empty or only        *)
(* whitespace is answered 400 {error: "Missing subject"} whatever its      *)
(* other fields are, and no flow, provider or quiz call is made for it.    *)
(***************************************************************************)
BlankSubject(b) ==
    \/ b.t # "object"
    \/ "subject" \notin DOMAIN b.v
    \/ b.v["subject"].t # "string"
    \/ \A i \in 1..Len(b.v["subject"].v) : b.v["subject"].v[i] = " "

C2_BlankSubjectIs400 ==
    /\ [][(pc = "body" /\ BlankSubject(body)) =>
            /\ responses' = <<[status |-> 400, body |-> [error |-> "Missing subject"]]>>
            /\ pc' = "done"]_vars
    /\ [](Sent(400) =>
            /\ pc = "done"
            /\ flowCalls = <<>>
            /\ providerCalls = <<>>
            /\ quizCalls = <<>>)

C2_Witness ==
    /\ Sent(400)
    /\ responses[1].body = [error |-> "Missing subject"]
    /\ subject = <<>>
    /\ includeQuiz
    /\ flowMode = "enhanced"
    /\ providerCalls = <<>>

(***************************************************************************)
(* C3: only a blank subject is fatal: a request with a non-blank subject   *)
(* is answered 200 whenever no provider call fails or returns an output    *)
(* that breaks its schema.                                                 *)
(***************************************************************************)
C3_OnlyBlankSubjectIsFatal ==
    (pc = "done" /\ subject # <<>> /\ caught \notin {"provider", "outputSchema", "quiz"})
        => Sent(200)

(***************************************************************************)
(* C4: a failure of the plan flow is answered 500 with the body            *)
(* {error: "Internal Server Error"}; a response that is not 200 has one    *)
(* of the two fixed bodies and nothing else.                               *)
(***************************************************************************)
C4_FailuresAreFixed500 ==
    /\ Len(responses) <= 1
    /\ (pc = "done" /\ flowCalls # <<>> /\ result = EmptyObject) =>
          responses = <<[status |-> 500, body |-> [error |-> "Internal Server Error"]]>>
    /\ caught # "none" =>
          responses = <<[status |-> 500, body |-> [error |-> "Internal Server Error"]]>>
    /\ \A i \in 1..Len(responses) :
          responses[i].status # 200 =>
            \/ responses[i] = [status |-> 400, body |-> [error |-> "Missing subject"]]
            \/ responses[i] =
                  [status |-> 500, body |-> [error |-> "Internal Server Error"]]

C4_Witness ==
    /\ caught = "provider"
    /\ flowCalls # <<>>
    /\ result = EmptyObject
    /\ Sent(500)

(***************************************************************************)
(* C5: once the plan flow has succeeded, the failure of one topic's quiz   *)
(* call does not fail the request: the response is 200 and that topic's    *)
(* quiz entry has no questions.                                            *)
(***************************************************************************)
C5_QuizFailureKeeps200 ==
    (pc = "done" /\ \E i \in 1..Len(completed) :
                        quizPromises[completed[i]].state = "rejected")
        => /\ Sent(200)
           /\ responses[1].body.quiz.t = "array"
           /\ \A i \in 1..Len(quizPromises) :
                 quizPromises[i].state = "rejected" =>
                    responses[1].body.quiz.v[i] =
                        [topic |-> quizCalls[i].topic, questions |-> <<>>]

(***************************************************************************)
(* C6: a generateQuizQuestions call never rejects: once its provider call  *)
(* has settled, by a reply or by a failure, the call has returned          *)
(* a record with its input topic.                                          *)
(***************************************************************************)
C6_QuizCallNeverRejects ==
    \A i \in 1..Len(completed) :
        /\ quizPromises[completed[i]].state = "fulfilled"
        /\ quizPromises[completed[i]].value["topic"] = quizCalls[completed[i]].topic

(***************************************************************************)
(* C7: with a quiz wanted for a plan of N >= 1 topics, all N quiz calls    *)
(* are issued before any of them settles, and the quiz list of the 200     *)
(* response has N entries, the i-th for the i-th plan topic, in whatever   *)
(* order the calls settled.                                                *)
(***************************************************************************)
QuizProviderCalls == {i \in 1..Len(providerCalls) : providerCalls[i].kind = "quiz"}

C7_QuizInPlanOrder ==
    /\ (pc = "awaitQuiz" \/ completed # <<>>) =>
          /\ Len(PlanTopicNames(result)) >= 1
          /\ Len(quizCalls) = Len(PlanTopicNames(result))
          /\ Cardinality(QuizProviderCalls) = Len(PlanTopicNames(result))
          /\ \A i \in 1..Len(quizCalls) :
                quizCalls[i].topic = PlanTopicNames(result)[i]
    /\ (Sent(200) /\ responses[1].body.quiz.t = "array") =>
          /\ Len(responses[1].body.quiz.v) =
                Len(PlanTopicNames(responses[1].body.data))
          /\ \A i \in 1..Len(responses[1].body.quiz.v) :
                responses[1].body.quiz.v[i]["topic"] =
                    PlanTopicNames(responses[1].body.data)[i]

\* The second call settled first, and the quiz is still in plan order.
C7_Witness ==
    /\ Sent(200)
    /\ completed = <<2, 1>>
    /\ responses[1].body.quiz.t = "array"
    /\ responses[1].body.quiz.v[1]["topic"] = <<"A">>
    /\ responses[1].body.quiz.v[2]["topic"] = <<"B">>

(***************************************************************************)
(* C8: in a 200 response quiz is a list exactly when includeQuiz is true   *)
(* and the plan has a non-empty topic list, and null in every other case.  *)
(***************************************************************************)
C8_QuizListIffTopics ==
    Sent(200) =>
        /\ responses[1].body.quiz.t \in {"array", "null"}
        /\ responses[1].body.quiz.t = "array" <=>
              /\ includeQuiz
              /\ "topics" \in DOMAIN responses[1].body.data
              /\ Len(responses[1].body.data["topics"]) > 0

\* A quiz was asked for a plan with an empty topic list.
C8_Witness ==
    /\ Sent(200)
    /\ includeQuiz
    /\ "topics" \in DOMAIN responses[1].body.data
    /\ responses[1].body.data["topics"] = <<>>
    /\ responses[1].body.quiz = JNull

(***************************************************************************)
(* C9, as claimed: one quiz call is made per distinct topic name of the    *)
(* plan.                                                                   *)
(***************************************************************************)
C9_OneCallPerDistinctName ==
    quizCalls # <<>> =>
        Len(quizCalls) =
            Cardinality({PlanTopicNames(result)[i] :
                            i \in 1..Len(PlanTopicNames(result))})

(***************************************************************************)
(* C9, amended: one quiz call is made per topic entry of the plan, so a    *)
(* name listed k times has k calls made for it.                            *)
(***************************************************************************)
C9_OneCallPerTopicEntry ==
    quizCalls # <<>> =>
        \A n \in TopicNames :
            Cardinality({i \in 1..Len(quizCalls) : quizCalls[i].topic = n}) =
            Cardinality({i \in 1..Len(PlanTopicNames(result)) :
                            PlanTopicNames(result)[i] = n})

C9_Witness ==
    /\ Len(quizCalls) = 2
    /\ quizCalls[1].topic = quizCalls[2].topic
    /\ PlanTopicNames(result) = <<<<"A">>, <<"A">>>>

(***************************************************************************)
(* C10: every result of the Structured or the Enhanced flow has a resource *)
(* with a non-empty url, whatever the provider returned; an output that    *)
(* has a subject and topics but no resource url still yields a result.     *)
(***************************************************************************)
HasUrl(plan) ==
    /\ "resource" \in DOMAIN plan
    /\ "url" \in DOMAIN plan["resource"]
    /\ plan["resource"]["url"] # <<>>

C10_ResourceUrlPresent ==
    /\ (pc = "awaitPlan" /\ flowCalls[1].flow # "studyPlanGenerator") =>
          \A reply \in PlanOutputs(subject) :
             LET r == FlowBody(flowCalls[1].flow, flowCalls[1].input, reply)
             IN  /\ r.ok => HasUrl(r.value)
                 /\ (reply.t = "object" /\ {"subject", "topics"} \subseteq DOMAIN reply.v)
                       => r.ok
    /\ (~BeforeDispatch /\ flowCalls # <<>> /\ flowCalls[1].flow # "studyPlanGenerator"
          /\ result # EmptyObject) => HasUrl(result)
    /\ (Sent(200) /\ flowMode # "simple") => HasUrl(responses[1].body.data)

\* The provider's output had no resource url: the result has the looked-up one.
C10_Witness ==
    /\ pc = "flowDone"
    /\ "resource" \in DOMAIN result
    /\ result["resource"]["platform"] = "YouTube"
    /\ result["resource"]["url"] =
          <<"https://www.youtube.com/results?search_query=", "a", "%20", "b",
            "+tutorial">>

FlowUsed == flowCalls[Len(flowCalls)].flow

\* The flow has returned its result to the router.
PlanReturned ==
    \/ pc \in {"flowDone", "awaitQuiz"}
    \/ pc = "done" /\ (Sent(200) \/ caught = "quiz")

Lookups(log) == SelectSeq(log, LAMBDA c : c.tool = "findEducationalLink")

ProviderGaveUrl(reply) ==
    /\ reply.t = "object"
    /\ "resource" \in DOMAIN reply.v
    /\ "url" \in DOMAIN reply.v["resource"]
    /\ reply.v["resource"]["url"] # <<>>

IsSubjectLookup(c) ==
    /\ c.tool = "findEducationalLink"
    /\ c.input.topic = subject
    /\ c.input.preferredPlatform = "undefined"

(***************************************************************************)
(* C11: in the Structured and Enhanced flows the resource of the result    *)
(* has one origin.  For every reply of the provider: when its output has a *)
(* resource with a url, the flow's own code makes no findEducationalLink   *)
(* call and the result has the provider's resource unchanged; otherwise    *)
(* the flow makes exactly one findEducationalLink call, with the subject   *)
(* and no platform, and the result has the record that call returns.  A    *)
(* result the router holds has either no lookup behind it or that one.     *)
(***************************************************************************)
C11_ResourceHasOneOrigin ==
    /\ (pc = "awaitPlan" /\ FlowUsed # "studyPlanGenerator") =>
          \A reply \in FlowReplies(FlowUsed, FlowInput(FlowUsed)) :
             LET r == FlowBody(FlowUsed, FlowInput(FlowUsed), reply)
                 made == Lookups(FlowToolCalls(FlowUsed, FlowInput(FlowUsed), reply))
             IN  IF ProviderGaveUrl(reply)
                 THEN /\ made = <<>>
                      /\ r.ok => r.value["resource"] = reply.v["resource"]
                 ELSE /\ Len(made) = 1
                      /\ IsSubjectLookup(made[1])
                      /\ r.ok => r.value["resource"] =
                                    findEducationalLink(made[1].input.topic,
                                                        made[1].input.preferredPlatform)
    /\ (PlanReturned /\ FlowUsed # "studyPlanGenerator") =>
          \/ /\ Lookups(toolCalls) = <<>>
             /\ result["resource"] \in ProviderResources
          \/ /\ Len(Lookups(toolCalls)) = 1
             /\ IsSubjectLookup(Lookups(toolCalls)[1])
             /\ result["resource"] = findEducationalLink(subject, "undefined")

\* A plan answered with the record of the flow's one lookup of the subject.
C11_Witness ==
    /\ Sent(200)
    /\ FlowUsed = "studyPlanGeneratorStructured"
    /\ Len(Lookups(toolCalls)) = 1
    /\ IsSubjectLookup(toolCalls[1])
    /\ responses[1].body.data["resource"]["platform"] = "YouTube"

Without(o, k) == [x \in (DOMAIN o) \ {k} |-> o[x]]

(***************************************************************************)
(* C12: the difficulty of a Structured or Enhanced result is the flow's    *)
(* input difficulty, whatever difficulty the provider's output holds, and  *)
(* is "beginner" for an input without a difficulty.  Checked for every     *)
(* reply of the provider, and on every result the router holds and sends.  *)
(***************************************************************************)
C12_DifficultyFromInput ==
    /\ (pc = "awaitPlan" /\ FlowUsed # "studyPlanGenerator") =>
          \A reply \in FlowReplies(FlowUsed, FlowInput(FlowUsed)) :
             LET given == FlowBody(FlowUsed, FlowInput(FlowUsed), reply)
                 none == FlowBody(FlowUsed, Without(FlowInput(FlowUsed), "difficulty"),
                                  reply)
             IN  /\ given.ok => given.value["difficulty"] = difficulty
                 /\ none.ok => none.value["difficulty"] = "beginner"
    /\ (PlanReturned /\ FlowUsed # "studyPlanGenerator") =>
          result["difficulty"] = difficulty
    /\ (Sent(200) /\ FlowUsed # "studyPlanGenerator") =>
          responses[1].body.data["difficulty"] = difficulty

\* The provider says "advanced", the request "intermediate": the plan says
\* "intermediate".
C12_Witness ==
    /\ pc = "awaitPlan"
    /\ FlowUsed = "studyPlanGeneratorStructured"
    /\ difficulty = "intermediate"
    /\ \E reply \in FlowReplies(FlowUsed, FlowInput(FlowUsed)) :
          /\ reply.t = "object"
          /\ "difficulty" \in DOMAIN reply.v
          /\ reply.v["difficulty"] = "advanced"
          /\ FlowBody(FlowUsed, FlowInput(FlowUsed), reply).ok
          /\ FlowBody(FlowUsed, FlowInput(FlowUsed), reply).value["difficulty"]
                = "intermediate"

RECURSIVE SumOfEstimates(_)
SumOfEstimates(topics) ==
    IF topics = <<>> THEN 0
    ELSE Head(topics).v["estimatedTime"].hoursPerWeek
            * Head(topics).v["estimatedTime"].totalWeeks
         + SumOfEstimates(Tail(topics))

HoursOfOneTopic ==
    CASE difficulty = "beginner" -> 20
      [] difficulty = "intermediate" -> 64
      [] difficulty = "advanced" -> 144

EnhancedWithEstimates ==
    /\ PlanReturned
    /\ FlowUsed = "enhancedStudyPlanGenerator"
    /\ includeTimeEstimates

(***************************************************************************)
(* C13: in an Enhanced result with includeTimeEstimates true,              *)
(* totalEstimatedHours is the sum over the returned topics of              *)
(* hoursPerWeek * totalWeeks, which is N * 20, N * 64 or N * 144 for N     *)
(* topics at beginner, intermediate or advanced, N = 0 included.           *)
(***************************************************************************)
C13_TotalIsSumOfTopicHours ==
    EnhancedWithEstimates =>
        /\ result["totalEstimatedHours"] = SumOfEstimates(result["topics"])
        /\ result["totalEstimatedHours"] = Len(result["topics"]) * HoursOfOneTopic

\* Two beginner topics: 40 hours in the response.
C13_Witness ==
    /\ Sent(200)
    /\ EnhancedWithEstimates
    /\ difficulty = "beginner"
    /\ Len(responses[1].body.data["topics"]) = 2
    /\ responses[1].body.data["totalEstimatedHours"] = 40

EnhancedReturned == PlanReturned /\ FlowUsed = "enhancedStudyPlanGenerator"

HasEstimate(t) == "estimatedTime" \in DOMAIN t.v

(***************************************************************************)
(* C14: in an Enhanced result, with includeTimeEstimates true              *)
(* totalEstimatedHours is present and every topic has an estimatedTime;    *)
(* with includeTimeEstimates false totalEstimatedHours is absent (the      *)
(* result has no such key, it is not 0) and no topic has an estimatedTime. *)
(***************************************************************************)
C14_EstimatesIffRequested ==
    EnhancedReturned =>
        /\ includeTimeEstimates =>
              /\ "totalEstimatedHours" \in DOMAIN result
              /\ \A i \in 1..Len(result["topics"]) : HasEstimate(result["topics"][i])
        /\ ~includeTimeEstimates =>
              /\ "totalEstimatedHours" \notin DOMAIN result
              /\ \A i \in 1..Len(result["topics"]) : ~HasEstimate(result["topics"][i])
        /\ Sent(200) => responses[1].body.data = result

\* An Enhanced plan of two topics sent without any time data.
C14_Witness ==
    /\ Sent(200)
    /\ EnhancedReturned
    /\ ~includeTimeEstimates
    /\ Len(responses[1].body.data["topics"]) = 2
    /\ "totalEstimatedHours" \notin DOMAIN responses[1].body.data

\* The provider has the tool running.
ToolRuns(tool) == pc = "tool" /\ toolRequest[1].tool = tool

EstimateOf(d) ==
    CASE d = "beginner" -> [hoursPerWeek |-> 5, totalWeeks |-> 4]
      [] d = "intermediate" -> [hoursPerWeek |-> 8, totalWeeks |-> 8]
      [] d = "advanced" -> [hoursPerWeek |-> 12, totalWeeks |-> 12]

(***************************************************************************)
(* C15: estimateStudyTime returns hoursPerWeek and totalWeeks of exactly   *)
(* 5 and 4 for beginner, 8 and 8 for intermediate, 12 and 12 for advanced, *)
(* whatever the topic (blank and padded topics included), and returns the  *)
(* topic it was given, unchanged; the estimatedTime the Enhanced flow      *)
(* attaches to a topic has the same values.                                *)
(***************************************************************************)
C15_EstimateIsTheTable ==
    /\ ToolRuns("estimateStudyTime") =>
          LET run == toolRequest[1]
          IN  /\ run.output.hoursPerWeek = EstimateOf(run.input.difficulty).hoursPerWeek
              /\ run.output.totalWeeks = EstimateOf(run.input.difficulty).totalWeeks
              /\ run.output.topic = run.input.topic
    /\ EnhancedWithEstimates =>
          \A i \in 1..Len(result["topics"]) :
             result["topics"][i].v["estimatedTime"] = EstimateOf(difficulty)

\* The tool run for the padded topic " a b " at advanced: 12 hours, 12 weeks.
C15_Witness ==
    /\ ToolRuns("estimateStudyTime")
    /\ toolRequest[1].input.topic = <<" ", "a", " ", "b", " ">>
    /\ toolRequest[1].input.difficulty = "advanced"
    /\ toolRequest[1].output.topic = <<" ", "a", " ", "b", " ">>
    /\ toolRequest[1].output.hoursPerWeek = 12
    /\ toolRequest[1].output.totalWeeks = 12

AllSpaces(text) == \A i \in 1..Len(text) : text[i] = " "

DefaultLink ==
    [title |-> <<"Getting Started">>,
     url |-> <<"https://www.khanacademy.org">>,
     platform |-> "Khan Academy"]

(***************************************************************************)
(* C16: for a topic that is empty or all whitespace findEducationalLink    *)
(* returns the default record (title "Getting Started", url                *)
(* "https://www.khanacademy.org", platform "Khan Academy"), whatever the   *)
(* platform asked for.                                                     *)
(***************************************************************************)
C16_BlankTopicGetsDefault ==
    (ToolRuns("findEducationalLink") /\ AllSpaces(toolRequest[1].input.topic)) =>
        toolRequest[1].output = DefaultLink

\* The lookup of a two-space topic on Coursera returns the default record.
C16_Witness ==
    /\ ToolRuns("findEducationalLink")
    /\ toolRequest[1].input.topic = <<" ", " ">>
    /\ toolRequest[1].input.preferredPlatform = "coursera"
    /\ toolRequest[1].output.platform = "Khan Academy"
    /\ toolRequest[1].output.url = <<"https://www.khanacademy.org">>

UrlEncoded(q) == [i \in 1..Len(q) |-> IF q[i] = " " THEN "%20" ELSE q[i]]

(***************************************************************************)
(* C17: for a topic that is not blank findEducationalLink returns one      *)
(* record (title, url, platform) chosen by the platform alone:             *)
(* "khanacademy" gives platform "Khan Academy" and the Khan Academy search *)
(* page of the encoded topic, "coursera" gives platform "Coursera" and the *)
(* Coursera search page, and "youtube", "any" or no platform give platform *)
(* "YouTube" and the YouTube results page of the encoded topic followed by *)
(* "+tutorial".  The lookup of the subject "a b" by a flow gives the       *)
(* YouTube page of a%20b+tutorial.                                         *)
(***************************************************************************)
C17_LinkChosenByPlatform ==
    /\ (ToolRuns("findEducationalLink") /\ ~AllSpaces(toolRequest[1].input.topic)) =>
          LET run == toolRequest[1]
              p == run.input.preferredPlatform
              encoded == UrlEncoded(Trim(run.input.topic))
          IN  /\ DOMAIN run.output = {"title", "url", "platform"}
              /\ p = "khanacademy" =>
                    /\ run.output.platform = "Khan Academy"
                    /\ run.output.url =
                          <<"https://www.khanacademy.org/search?page_search_query=">>
                          \o encoded
              /\ p = "coursera" =>
                    /\ run.output.platform = "Coursera"
                    /\ run.output.url =
                          <<"https://www.coursera.org/search?query=">> \o encoded
              /\ p \in {"youtube", "any", "undefined"} =>
                    /\ run.output.platform = "YouTube"
                    /\ run.output.url =
                          <<"https://www.youtube.com/results?search_query=">>
                          \o encoded \o <<"+tutorial">>
    /\ (PlanReturned /\ FlowUsed # "studyPlanGenerator" /\ Lookups(toolCalls) # <<>>) =>
          /\ result["resource"]["platform"] = "YouTube"
          /\ result["resource"]["url"] =
                <<"https://www.youtube.com/results?search_query=", "a", "%20", "b",
                  "+tutorial">>

\* The lookup of " a b " on Khan Academy: the search page of a%20b.
C17_Witness ==
    /\ ToolRuns("findEducationalLink")
    /\ toolRequest[1].input.topic = <<" ", "a", " ", "b", " ">>
    /\ toolRequest[1].input.preferredPlatform = "khanacademy"
    /\ toolRequest[1].output.platform = "Khan Academy"
    /\ toolRequest[1].output.url =
          <<"https://www.khanacademy.org/search?page_search_query=", "a", "%20", "b">>

ToolsByFlags ==
    (IF flowMode = "simple"
     THEN <<"studyTopicsPrompt">>
     ELSE IF enhanced \/ includeTimeEstimates
          THEN <<"structuredStudyPlanPrompt", "findEducationalLink", "estimateStudyTime">>
          ELSE <<"structuredStudyPlanPrompt", "findEducationalLink">>)
    \o (IF includeQuiz THEN <<"generateQuizQuestions">> ELSE <<>>)

ToolsUsed == responses[1].body.meta.toolsUsed

Names(list) == {list[i] : i \in 1..Len(list)}

(***************************************************************************)
(* C19: whenever the Enhanced flow handled the request (flowMode           *)
(* "enhanced", or enhanced true), meta.toolsUsed of the 200 response       *)
(* contains "estimateStudyTime".                                           *)
(***************************************************************************)
C19_EnhancedNamesEstimator ==
    (Sent(200) /\ FlowUsed = "enhancedStudyPlanGenerator") =>
        "estimateStudyTime" \in Names(ToolsUsed)

(***************************************************************************)
(* C20: meta.flowMode of a 200 response names the flow that produced the   *)
(* data: it is "simple" exactly when the Simple flow did, "structured"     *)
(* exactly when the Structured flow did, and "enhanced" exactly when the   *)
(* Enhanced flow did.                                                      *)
(***************************************************************************)
C20_MetaFlowModeNamesFlow ==
    Sent(200) =>
        LET named == responses[1].body.meta.flowMode
        IN  /\ named = "simple" <=> FlowUsed = "studyPlanGenerator"
            /\ named = "structured" <=> FlowUsed = "studyPlanGeneratorStructured"
            /\ named = "enhanced" <=> FlowUsed = "enhancedStudyPlanGenerator"

(***************************************************************************)
(* C21: the Simple flow returns {text} with the provider's text when that  *)
(* text is not empty, and with "No suggestions available." when the        *)
(* provider's text is empty or absent.  Checked for every reply of the     *)
(* provider and on every result the router holds.                          *)
(***************************************************************************)
C21_TextOrPlaceholder ==
    /\ (pc = "awaitPlan" /\ FlowUsed = "studyPlanGenerator") =>
          \A reply \in FlowReplies(FlowUsed, FlowInput(FlowUsed)) :
             LET r == FlowBody(FlowUsed, FlowInput(FlowUsed), reply)
             IN  /\ r.ok
                 /\ DOMAIN r.value = {"text"}
                 /\ r.value["text"] =
                       IF reply.t = "string" /\ reply.v # <<>>
                       THEN reply.v
                       ELSE <<"No suggestions available.">>
    /\ (PlanReturned /\ FlowUsed = "studyPlanGenerator") => result["text"] # <<>>

(***************************************************************************)
(* C22: when every provider call eventually replies or fails, every        *)
(* request comes to its end, and at its end exactly one response has been  *)
(* sent, with status 400, 500 or 200; no response is sent before the end   *)
(* and none after it.                                                      *)
(***************************************************************************)
C22_OneTerminalOutcome ==
    /\ <>(pc = "done")
    /\ [](pc = "done" => (Len(responses) = 1 /\ responses[1].status \in {400, 500, 200}))
    /\ [](pc # "done" => responses = <<>>)
    /\ [][pc = "done" => (pc' = "done" /\ responses' = responses)]_vars

\* A request ended by 500 after a quiz call failed while another was pending.
C22_Witness ==
    /\ pc = "done"
    /\ Sent(500)
    /\ caught = "quiz"
    /\ \E i \in 1..Len(quizPromises) : quizPromises[i] = Pending

PlanProviderCalls == {i \in 1..Len(providerCalls) : providerCalls[i].kind = "plan"}

QuizEntries(response) ==
    IF response.body.quiz.t = "null" THEN 0 ELSE Len(response.body.quiz.v)

(***************************************************************************)
(* C23: a request answered 200 has made exactly one provider call for the  *)
(* plan, the first of its calls, and exactly one provider call per entry   *)
(* of quiz (none when quiz is null); a quiz provider call is made only     *)
(* after the plan call has returned; a request answered 400 has made no    *)
(* provider call.                                                          *)
(***************************************************************************)
C23_ProviderCallsCounted ==
    /\ Sent(200) =>
          /\ PlanProviderCalls = {1}
          /\ Cardinality(QuizProviderCalls) = QuizEntries(responses[1])
          /\ Len(providerCalls) = 1 + QuizEntries(responses[1])
    /\ Sent(400) => providerCalls = <<>>
    /\ QuizProviderCalls # {} => (PlanReturned /\ 1 \notin QuizProviderCalls)
    /\ pc \in {"awaitPlan", "tool"} => Len(providerCalls) = 1

\* A 200 response with a quiz of two entries after three provider calls.
C23_Witness ==
    /\ Sent(200)
    /\ QuizEntries(responses[1]) = 2
    /\ Len(providerCalls) = 3
    /\ providerCalls[1].kind = "plan"
    /\ providerCalls[2].kind = "quiz"
    /\ providerCalls[3].kind = "quiz"

ProviderTopics(reply) ==
    IF reply.t = "object" /\ "topics" \in DOMAIN reply.v THEN reply.v["topics"] ELSE <<>>

(***************************************************************************)
(* C25: the topics of an Enhanced result are the provider's topic names:   *)
(* as many topics as the provider gave, the i-th with the i-th name of the *)
(* provider, with includeTimeEstimates true and with it false.  Checked    *)
(* for every reply of the provider.                                        *)
(***************************************************************************)
C25_TopicsInProviderOrder ==
    (pc = "awaitPlan" /\ FlowUsed = "enhancedStudyPlanGenerator") =>
        \A reply \in FlowReplies(FlowUsed, FlowInput(FlowUsed)) :
           LET r == FlowBody(FlowUsed, FlowInput(FlowUsed), reply)
           IN  r.ok =>
                  /\ Len(r.value["topics"]) = Len(ProviderTopics(reply))
                  /\ \A i \in 1..Len(ProviderTopics(reply)) :
                        r.value["topics"][i].v["name"] = ProviderTopics(reply)[i].v

\* The provider's topics B, A come back as B, A with their estimates.
C25_Witness ==
    /\ pc = "awaitPlan"
    /\ FlowUsed = "enhancedStudyPlanGenerator"
    /\ includeTimeEstimates
    /\ \E reply \in FlowReplies(FlowUsed, FlowInput(FlowUsed)) :
          LET r == FlowBody(FlowUsed, FlowInput(FlowUsed), reply)
          IN  /\ ProviderTopics(reply) = <<JStr(<<"B">>), JStr(<<"A">>)>>
              /\ r.ok
              /\ r.value["topics"][1].v["name"] = <<"B">>
              /\ r.value["topics"][2].v["name"] = <<"A">>
              /\ HasEstimate(r.value["topics"][1])

\* The field k of the request as it was sent, undefined when there is none.
Given(k) == IF body.t = "object" /\ k \in DOMAIN body.v THEN body.v[k] ELSE JUndef

IsTrue(val) == val.t = "boolean" /\ val.v

(***************************************************************************)
(* C26: the router normalises the optional fields before it dispatches.    *)
(* On the step that reads the fields: difficulty becomes the given value   *)
(* when that is "beginner", "intermediate" or "advanced" and "beginner"    *)
(* otherwise; includeQuiz, includeTimeEstimates and enhanced become true   *)
(* only for the boolean true; flowMode becomes the given string, and       *)
(* "structured" when absent or not a string; topicCount becomes the given  *)
(* number, and 5 when absent or not a number.  At every later moment the   *)
(* flow was called with these values and every quiz call has the           *)
(* normalised difficulty.                                                  *)
(***************************************************************************)
C26_FieldsNormalised ==
    /\ [][pc = "body" =>
            /\ difficulty' =
                  (IF Given("difficulty").t = "string"
                      /\ Given("difficulty").v \in {"beginner", "intermediate", "advanced"}
                   THEN Given("difficulty").v
                   ELSE "beginner")
            /\ includeQuiz' = IsTrue(Given("includeQuiz"))
            /\ includeTimeEstimates' = IsTrue(Given("includeTimeEstimates"))
            /\ enhanced' = IsTrue(Given("enhanced"))
            /\ flowMode' =
                  (IF Given("flowMode").t = "string" THEN Given("flowMode").v
                   ELSE "structured")
            /\ topicCount' =
                  (IF Given("topicCount").t = "number" THEN Given("topicCount").v
                   ELSE 5)]_vars
    /\ [](flowCalls # <<>> =>
            LET input == flowCalls[1].input
            IN  /\ "difficulty" \in DOMAIN input => input.difficulty = difficulty
                /\ "includeTimeEstimates" \in DOMAIN input =>
                      input.includeTimeEstimates = includeTimeEstimates
                /\ "topicCount" \in DOMAIN input => input.topicCount = topicCount
                /\ flowCalls[1].flow # "studyPlanGenerator" =>
                      "difficulty" \in DOMAIN input
                /\ flowCalls[1].flow = "studyPlanGenerator" =>
                      "topicCount" \in DOMAIN input)
    /\ [](\A i \in 1..Len(quizCalls) : quizCalls[i].difficulty = difficulty)

\* A request with difficulty "expert", the string "true" for every flag, a
\* number for flowMode and a string for topicCount is about to be read, and
\* is read as beginner, false, false, false, "structured" and 5.
C26_Witness ==
    /\ pc = "body"
    /\ Given("subject") = JStr(<<" ", "a", " ", "b", " ">>)
    /\ Given("difficulty") = JStr("expert")
    /\ Given("includeQuiz") = JStr("true")
    /\ Given("enhanced") = JStr("true")
    /\ Given("flowMode") = JNum(1)
    /\ Given("topicCount") = JStr("7")
    /\ NormDifficulty(body) = "beginner"
    /\ ~NormFlag(body, "includeQuiz")
    /\ ~NormFlag(body, "enhanced")
    /\ NormFlowMode(body) = "structured"
    /\ NormTopicCount(body) = 5

NoStringSubject(b) ==
    \/ b.t # "object"
    \/ "subject" \notin DOMAIN b.v
    \/ b.v["subject"].t # "string"

(***************************************************************************)
(* C28: a request whose payload is not JSON is read as the empty object    *)
(* and every other payload as it is; a body that is not an object with a   *)
(* string subject (the empty object, null, a number, a string, an array,   *)
(* an object whose subject is not a string) is answered 400 "Missing       *)
(* subject" on the next step without entering the catch block, and the     *)
(* 400 is never followed or replaced by a 500.                             *)
(***************************************************************************)
C28_MalformedBodyIs400 ==
    /\ [][pc = "request" =>
            /\ pc' = "body"
            /\ responses' = <<>>
            /\ rawBody.t = "invalid" => (body'.t = "object" /\ DOMAIN body'.v = {})
            /\ rawBody.t # "invalid" => body' = rawBody]_vars
    /\ [][(pc = "body" /\ NoStringSubject(body)) =>
            /\ responses' = <<[status |-> 400, body |-> [error |-> "Missing subject"]]>>
            /\ pc' = "done"
            /\ caught' = "none"]_vars
    /\ [][Sent(400) => responses' = responses]_vars

\* The payload was not JSON: the body in the router's hands is {}.
C28_Witness ==
    /\ pc = "body"
    /\ rawBody = Consumed
    /\ body.t = "object"
    /\ DOMAIN body.v = {}
    /\ NormSubject(body) = <<>>

Parsed(ctx) == ctx.pc \notin {"request", "body"}

\* The running request and the other one are Simple requests that agree on
\* every field but difficulty, enhanced and includeTimeEstimates.
SimplePair ==
    /\ Parsed(Context)
    /\ Parsed(parked)
    /\ flowMode = "simple"
    /\ parked.flowMode = "simple"
    /\ subject = parked.subject
    /\ model = parked.model
    /\ topicCount = parked.topicCount
    /\ includeQuiz = parked.includeQuiz

(***************************************************************************)
(* C24: with flowMode "simple" the fields difficulty, enhanced and         *)
(* includeTimeEstimates have no effect.  Of two requests that differ in    *)
(* nothing else, both are dispatched to the same flow with the same        *)
(* arguments and make the same provider call, and when the provider has    *)
(* answered both alike (the same text, or a failure for both) their        *)
(* responses are equal: the same status, data, quiz and meta.              *)
(***************************************************************************)
C24_SimpleIgnoresDifficultyAndFlags ==
    SimplePair =>
        /\ (flowCalls # <<>> /\ parked.flowCalls # <<>>) =>
              /\ flowCalls = parked.flowCalls
              /\ flowCalls[1].flow = "studyPlanGenerator"
              /\ DOMAIN flowCalls[1].input = {"subject", "model", "topicCount"}
        /\ (providerCalls # <<>> /\ parked.providerCalls # <<>>) =>
              providerCalls = parked.providerCalls
        /\ (pc = "done" /\ parked.pc = "done"
               /\ result = parked.result /\ caught = parked.caught) =>
              responses = parked.responses

\* Two Simple requests, one at "advanced" with enhanced and time estimates,
\* one with none of them, both answered 200 with the same body.
C24_Witness ==
    /\ SimplePair
    /\ pc = "done"
    /\ parked.pc = "done"
    /\ difficulty = "advanced"
    /\ enhanced
    /\ includeTimeEstimates
    /\ parked.difficulty = "beginner"
    /\ ~parked.enhanced
    /\ ~parked.includeTimeEstimates
    /\ Sent(200)
    /\ responses = parked.responses

(***************************************************************************)
(* C27: requests handled at the same time do not interfere.  Under every   *)
(* interleaving of two requests, a step of the running request leaves the  *)
(* state of the other one as it is, and when the server turns to the other *)
(* request that request continues from exactly the state it had; so what   *)
(* holds of a request handled alone holds of each of the two: the flow and *)
(* the shape of its data follow from its own fields, the total hours from  *)
(* its own topics and difficulty, and its provider calls are its own plan  *)
(* call and quiz calls.                                                    *)
(***************************************************************************)
C27_RequestsDoNotInterfere ==
    /\ [][\/ parked' = parked
          \/ (parked' = Context /\ Context' = parked)]_vars
    /\ [](C1_OneFlowByPriority /\ C13_TotalIsSumOfTopicHours /\ C23_ProviderCallsCounted)

\* The Enhanced request waits for its quiz while the Simple request, already
\* dispatched, waits for its plan.
C27_Witness ==
    /\ pc = "awaitQuiz"
    /\ flowMode = "enhanced"
    /\ Len(quizCalls) = 2
    /\ parked.pc = "awaitPlan"
    /\ parked.flowMode = "simple"
    /\ parked.flowCalls[1].flow = "studyPlanGenerator"

(***************************************************************************)
(* The web form (src/app/page.tsx, Home).  page holds the component state  *)
(* the form displays: subject, plan, quiz, toolsUsed, isLoading and error; *)
(* null is <<>>, and a plan, quiz or tool list received for the i-th       *)
(* submitted request is <<i>>.  fetches holds, per submitted request, the  *)
(* subject sent and how the request ended.  The other fields of the body   *)
(* are the form's settings, which handleGenerate reads and never writes.   *)
(* The server is seen from the browser as a reply per request: ok with a   *)
(* plan and a quiz or null, not ok with an error body, or no reply at all. *)
(***************************************************************************)
MaxRequests == 3

FormSubjects == {<<>>, <<" ">>, <<"a">>, <<" ", "b">>}

\* fetch rejects or res.json() throws (an Error, so its message is shown);
\* the router's error bodies (route.ts 33, 90); a not-ok reply without an error.
ThrownMessages == {"Failed to fetch"}
ErrorBodies == {"Missing subject", "Internal Server Error", ""}

FormInit ==
    /\ Received(JStr("a"))
    /\ parked = <<>>
    /\ page = InitialPage
    /\ fetches = <<>>

InFlight == {i \in 1..Len(fetches) : fetches[i].state = "pending"}

\* setSubject(e.target.value)
TypeSubject(value) ==
    /\ page.subject # value
    /\ page' = [page EXCEPT !.subject = value]
    /\ UNCHANGED <<request, parked, fetches>>

\* handleGenerate up to its first await.
handleGenerate ==
    LET s == Trim(page.subject) IN
    IF s = <<>>
    THEN /\ page' = [page EXCEPT !.error = "Please enter a subject"]
         /\ UNCHANGED <<request, parked, fetches>>
    ELSE /\ Len(fetches) < MaxRequests
         /\ page' = [page EXCEPT !.error = "", !.isLoading = TRUE,
                                 !.plan = <<>>, !.quiz = <<>>, !.toolsUsed = <<>>]
         /\ fetches' = Append(fetches, [subject |-> s, state |-> "pending",
                                        quiz |-> FALSE, error |-> ""])
         /\ UNCHANGED <<request, parked>>

\* The Generate button: disabled={isLoading}.
ClickGenerate ==
    /\ ~page.isLoading
    /\ handleGenerate

\* handleKeyDown: Enter in the subject input, which is never disabled.
PressEnter == handleGenerate

\* res.ok: setPlan(data.data); setQuiz(data.quiz); setToolsUsed(...); finally.
ResponseOk(i, hasQuiz) ==
    /\ i \in InFlight
    /\ page' = [page EXCEPT !.plan = <<i>>,
                            !.quiz = IF hasQuiz THEN <<i>> ELSE <<>>,
                            !.toolsUsed = <<i>>,
                            !.isLoading = FALSE]
    /\ fetches' = [fetches EXCEPT ![i].state = "ok", ![i].quiz = hasQuiz]
    /\ UNCHANGED <<request, parked>>

\* setError(message); finally setIsLoading(false).
Failed(i, message) ==
    /\ page' = [page EXCEPT !.error = message, !.isLoading = FALSE]
    /\ fetches' = [fetches EXCEPT ![i].state = "failed", ![i].error = message]
    /\ UNCHANGED <<request, parked>>

\* !res.ok: throw new Error(data?.error || "Failed to generate").
ResponseError(i, error) ==
    /\ i \in InFlight
    /\ Failed(i, IF error # "" THEN error ELSE "Failed to generate")

\* fetch rejects or the reply is not JSON.
FetchFails(i, message) ==
    /\ i \in InFlight
    /\ Failed(i, message)

FormNext ==
    \/ \E value \in FormSubjects : TypeSubject(value)
    \/ ClickGenerate
    \/ PressEnter
    \/ \E i \in 1..MaxRequests : \E hasQuiz \in BOOLEAN : ResponseOk(i, hasQuiz)
    \/ \E i \in 1..MaxRequests : \E error \in ErrorBodies : ResponseError(i, error)
    \/ \E i \in 1..MaxRequests : \E message \in ThrownMessages : FetchFails(i, message)

FormSpec == FormInit /\ [][FormNext]_vars

\* The request submitted last, and what the form shows when it alone decides.
Latest == fetches[Len(fetches)]

LatestIndex == Len(fetches)

(***************************************************************************)
(* C29: in the web form at most one generate request is in flight at any   *)
(* time, whatever sequence of button clicks and Enter key presses the user *)
(* makes; a request is started only while isLoading is false.              *)
(***************************************************************************)
C29_OneRequestInFlight ==
    /\ Cardinality(InFlight) <= 1
    /\ InFlight # {} => page.isLoading

(***************************************************************************)
(* C30: in the web form, once no request is in flight, the displayed plan, *)
(* quiz, toolsUsed and error come from the request submitted last: after a *)
(* successful one its plan, quiz and tools with no error, after a failed   *)
(* one no plan and no quiz with its error.  The message of a blank submit, *)
(* which sends no request, is left aside.                                  *)
(***************************************************************************)
C30_DisplayFromLatestRequest ==
    (fetches # <<>> /\ InFlight = {} /\ page.error # "Please enter a subject") =>
        IF Latest.state = "ok"
        THEN /\ page.plan = <<LatestIndex>>
             /\ page.quiz = (IF Latest.quiz THEN <<LatestIndex>> ELSE <<>>)
             /\ page.toolsUsed = <<LatestIndex>>
             /\ page.error = ""
        ELSE /\ page.plan = <<>>
             /\ page.quiz = <<>>
             /\ page.toolsUsed = <<>>
             /\ page.error = Latest.error
             /\ page.error # ""


====
